---- MODULE Spec2Model ----
(***************************************************************************)
(* Model of the lighting control core of project_day_one:                  *)
(*   lightswarm.py  binary protocol encoder, SLIP-like framing, transport  *)
(*   sk6812.py      JSON envelope encoder, transport                       *)
(*   main.py        the two submitting endpoints                           *)
(* Worker threads run endpoint requests concurrently.  Every statement of  *)
(* send_payload that reads or writes the shared connection handle or the   *)
(* device lock is one step of the thread that executes it, and so is the   *)
(* end of the call: other threads run between the release of the lock or   *)
(* the last assignment and the return or the raise.                        *)
(***************************************************************************)
EXTENDS Integers, Sequences, FiniteSets, TLC

(***************************************************************************)
(* Bounds                                                                  *)
(***************************************************************************)
NThreads == 2
MaxChannels == 3
MaxRange == 3
MaxLen == 3

Thread == 1..NThreads
NoThread == 0
Dev == {"lightswarm", "sk6812"}
NoHandle == "None"

(***************************************************************************)
(* Values of optional command fields (pydantic: int | None) and elements   *)
(* of the channel list (pydantic: list, of anything)                       *)
(***************************************************************************)
NoneV == [tag |-> "none", v |-> 0]
IntV(n) == [tag |-> "int", v |-> n]
StrV == [tag |-> "str", v |-> 0]

Ok(x) == [ok |-> TRUE, val |-> x, err |-> "-"]
Err(e) == [ok |-> FALSE, val |-> 0, err |-> e]

(***************************************************************************)
(* lightswarm.py : catalog, validator, encoder, frame codec                *)
(***************************************************************************)
ls_codes ==
    [a \in {"nothing", "reset", "ping_request", "ping_response", "on", "off",
            "level", "fade", "set_pseudo", "toggle"} |->
        CASE a = "nothing" -> 0
          [] a = "reset" -> 1
          [] a = "ping_request" -> 2
          [] a = "ping_response" -> 3
          [] a = "on" -> 32
          [] a = "off" -> 33
          [] a = "level" -> 34
          [] a = "fade" -> 35
          [] a = "set_pseudo" -> 37
          [] a = "toggle" -> 45]

ls_get_command_code(action) ==
    IF action \in DOMAIN ls_codes THEN Ok(ls_codes[action])
    ELSE Err("ValueError: Unknown action")

M_check_value(input, action, bracket) ==
    IF input.tag = "none" THEN Err("ValueError: missing a required value")
    ELSE IF Len(bracket) > 0 /\ Len(bracket) # 2
        THEN Err("ValueError: bracket needs exactly 2 values")
    ELSE IF Len(bracket) = 2 /\ ~(bracket[1] < input.v /\ input.v < bracket[2])
        THEN Err("ValueError: must be between")
    ELSE Ok(input.v)

check_value(input, action, bracket) ==
    IF input.tag = "none" THEN Err("ValueError: missing a required value")
    ELSE IF input.tag # "int" THEN Err("TypeError: must be an integer")
    ELSE IF Len(bracket) > 0 /\ Len(bracket) # 2
        THEN Err("ValueError: bracket needs exactly 2 values")
    ELSE IF Len(bracket) = 2 /\ ~(bracket[1] <= input.v /\ input.v <= bracket[2])
        THEN Err("ValueError: must be between")
    ELSE Ok(input.v)

\* Floor shift and mask of Python integers: (n >> 8) & 0xFF and n & 0xFF.
HighByte(n) == (n \div 256) % 256

M_LowByte(n) == n

LowByte(n) == n % 256

get_extra_payload_data(command) ==
    LET action == command.action IN
    IF action = "level" THEN
        LET r == check_value(command.level, action, <<0, 255>>) IN
        IF r.ok THEN Ok(<<r.val>>) ELSE r
    ELSE IF action = "fade" THEN
        LET l == check_value(command.level, action, <<0, 255>>)
            i == check_value(command.interval, action, <<1, 255>>)
            s == check_value(command.step, action, <<0, 255>>)
        IN  IF ~l.ok THEN l
            ELSE IF ~i.ok THEN i
            ELSE IF ~s.ok THEN s
            ELSE Ok(<<l.val, i.val, s.val>>)
    ELSE IF action = "set_pseudo" THEN
        LET p == check_value(command.pseudo_address, action, <<>>) IN
        IF p.ok THEN Ok(<<HighByte(p.val), LowByte(p.val)>>) ELSE p
    ELSE Ok(<<>>)

M_Xor(x, y) == (x + y) % 256

RECURSIVE Xor(_, _)
Xor(x, y) ==
    IF x = 0 THEN y
    ELSE IF y = 0 THEN x
    ELSE (((x % 2) + (y % 2)) % 2) + (2 * Xor(x \div 2, y \div 2))

RECURSIVE XorAll(_)
XorAll(s) ==
    IF Len(s) = 1 THEN s[1]
    ELSE Xor(XorAll(SubSeq(s, 1, Len(s) - 1)), s[Len(s)])

END == 192
ESC == 219
END_ESC == 220
ESC_ESC == 221

M_Stuff(s) == s

RECURSIVE Stuff(_)
Stuff(s) ==
    IF s = <<>> THEN <<>>
    ELSE LET b == s[1]
             rest == Stuff(SubSeq(s, 2, Len(s)))
         IN  IF b = END THEN <<ESC, END_ESC>> \o rest
             ELSE IF b = ESC THEN <<ESC, ESC_ESC>> \o rest
             ELSE <<b>> \o rest

M_build_payload(byte_array) ==
    IF byte_array # <<>> /\ ~(0 <= byte_array[1] /\ byte_array[1] <= 255)
        THEN Err("ValueError: 8 bit value expected")
    ELSE Ok(<<END>> \o Stuff(byte_array) \o <<END>>)

build_payload(byte_array) ==
    IF \E k \in 1..Len(byte_array) : ~(0 <= byte_array[k] /\ byte_array[k] <= 255)
        THEN Err("ValueError: 8 bit value expected")
    ELSE Ok(<<END>> \o Stuff(byte_array) \o <<END>>)

\* The body of the loop of lightswarm_command up to the call of
\* build_payload: the byte_array built for one channel, or the error raised.
ls_byte_array(command, channel) ==
    LET code == ls_get_command_code(command.action) IN
    IF ~code.ok THEN code
    ELSE LET extra == get_extra_payload_data(command) IN
         IF ~extra.ok THEN extra
         ELSE LET body == <<HighByte(channel), LowByte(channel), code.val>>
                              \o extra.val
              IN  Ok(Append(body, XorAll(body)))

M_ls_fixed_channel(command, channel) ==
    IF channel.tag # "int" THEN Err("TypeError: unsupported operand type(s) for >>")
    ELSE LET b == ls_byte_array(command, 1) IN
         IF b.ok THEN build_payload(b.val) ELSE b

\* One iteration of the loop of lightswarm_command for an element of the
\* channel list: the framed payload that is handed to send_payload, or the
\* error that is raised.  `channel >> 8` is the first thing evaluated and
\* raises TypeError on an element that is not an integer.
ls_channel_payload(command, channel) ==
    IF channel.tag # "int" THEN Err("TypeError: unsupported operand type(s) for >>")
    ELSE LET b == ls_byte_array(command, channel.v) IN
         IF b.ok THEN build_payload(b.val) ELSE b

(***************************************************************************)
(* sk6812.py : colour catalog and envelope encoder                        *)
(***************************************************************************)
sk_codes ==
    [c \in {"natural", "cool", "warm", "red", "green", "blue", "off"} |->
        CASE c = "natural" -> <<0, 0, 0, 255>>
          [] c = "cool" -> <<255, 255, 255, 255>>
          [] c = "warm" -> <<253, 244, 220, 0>>
          [] c = "red" -> <<255, 0, 0, 0>>
          [] c = "green" -> <<0, 255, 0, 0>>
          [] c = "blue" -> <<0, 0, 255, 0>>
          [] c = "off" -> <<0, 0, 0, 0>>]

sk_get_command_code(colour) ==
    IF colour \in DOMAIN sk_codes THEN Ok(sk_codes[colour])
    ELSE Err("ValueError: Unknown settings")

M_sk_payload(command) ==
    IF command.channels # <<>> /\ ~sk_get_command_code(command.colour).ok
        THEN sk_get_command_code(command.colour)
    ELSE Ok([k \in 1..Len(command.channels) |->
                [index |-> IntV(k),
                 set |-> sk_get_command_code(command.colour).val,
                 brightness |-> command.brightness,
                 effect |-> command.effect]])

\* The list built by the loop of sk6812_command, or the error it raises.
sk_payload(command) ==
    IF command.channels # <<>> /\ ~sk_get_command_code(command.colour).ok
        THEN sk_get_command_code(command.colour)
    ELSE Ok([k \in 1..Len(command.channels) |->
                [index |-> command.channels[k],
                 set |-> sk_get_command_code(command.colour).val,
                 brightness |-> command.brightness,
                 effect |-> command.effect]])

(***************************************************************************)
(* Requests the endpoints receive while the transport is exercised: a      *)
(* valid and an invalid command for each endpoint.  Channel 192 makes a    *)
(* frame that needs an escape.                                             *)
(***************************************************************************)
LsCommands ==
    {[channels |-> <<IntV(192)>>, action |-> "on", level |-> NoneV, interval |-> NoneV,
      step |-> NoneV, pseudo_address |-> NoneV],
     [channels |-> <<IntV(1)>>, action |-> "level", level |-> IntV(300),
      interval |-> NoneV, step |-> NoneV, pseudo_address |-> NoneV]}

SkCommands ==
    {[channels |-> <<IntV(0)>>, colour |-> col, brightness |-> 1, effect |-> "none"] :
        col \in {"red", "purple"}}

NoCommand == [channels |-> <<>>]

Commands(d) == IF d = "lightswarm" THEN LsCommands ELSE SkCommands

(***************************************************************************)
(* State                                                                   *)
(***************************************************************************)
VARIABLES
    lock,       \* serial_lock of each device: the thread holding it
    handle,     \* the global lightswarm / ledstrip: None, or the state of the
                \* serial.Serial object it refers to
    leaked,     \* some Serial object of the device is open, was never closed,
                \* and no name refers to it any more
    pc,         \* position of each worker thread
    dev,        \* device of the request a thread is serving
    cmd,        \* command of that request
    chan,       \* index into command['channels'] of the loop of lightswarm_command
    payload,    \* argument of the send_payload call in progress
    call,       \* history of the send_payload call in progress
    status,     \* status returned by the endpoint for the thread's last request
    reqFailed,  \* a send of the current request ended with a serial error
    req,        \* the request whose command function a single worker called last
    fn,         \* a function of the encoder applied on its own
    arg,        \* its argument
    result      \* its result

vars == <<lock, handle, leaked, pc, dev, cmd, chan, payload, call, status, reqFailed,
          req, fn, arg, result>>

\* the variables that hold a function applied on its own
applied == <<fn, arg, result>>

NoRequest == [dev |-> "-", command |-> [channels |-> <<>>]]
Pending == [ok |-> FALSE, val |-> 0, err |-> "pending"]

NoCall ==
    [entry |-> "-", opens |-> 0, writes |-> 0, closes |-> 0,
     openRes |-> "-", writeRes |-> "-", closeRes |-> "-",
     attrErr |-> FALSE, logged |-> "-", outcome |-> "-", retState |-> "-",
     written |-> <<>>, prior |-> 0, nth |-> 0, own |-> FALSE]

\* The history of a call is recorded for the calls of one thread; the threads
\* run the same code, so what holds of its calls holds of every call.  Only
\* the way the call ended, which the caller acts on, is kept for the others.
Watched(t) == \A u \in Thread : t <= u

Hist(t, c) == IF Watched(t) THEN c ELSE [NoCall EXCEPT !.outcome = c.outcome]

\* is_open of a Serial object: True from construction until close() succeeds.
\* "closefailed" is an object whose close() raised.
IsOpen(h) == h \in {"open", "closefailed"}

\* `not lightswarm or not lightswarm.is_open`
Disconnected(d) == handle[d] = NoHandle \/ ~IsOpen(handle[d])

ConnState(h) == IF h # NoHandle /\ IsOpen(h) THEN "C" ELSE "D"

\* open handles of a device on which close() was never called (those no name
\* refers to count once)
Unclosed(d) == (IF leaked[d] THEN 1 ELSE 0) + (IF handle[d] = "open" THEN 1 ELSE 0)

\* the module globals after import, and no request in progress
AtRest ==
    /\ lock = [d \in Dev |-> NoThread]
    /\ handle = [d \in Dev |-> NoHandle]
    /\ leaked = [d \in Dev |-> FALSE]
    /\ pc = [t \in Thread |-> "idle"]
    /\ dev = [t \in Thread |-> "lightswarm"]
    /\ cmd = [t \in Thread |-> NoCommand]
    /\ chan = [t \in Thread |-> 1]
    /\ payload = [t \in Thread |-> <<>>]
    /\ call = [t \in Thread |-> NoCall]
    /\ status = [t \in Thread |-> "-"]
    /\ reqFailed = [t \in Thread |-> FALSE]
    /\ req = NoRequest

Init ==
    /\ AtRest
    /\ fn = "-"
    /\ arg = <<>>
    /\ result = Pending

(***************************************************************************)
(* main.py : the endpoints                                                 *)
(***************************************************************************)
\* lightswarm() / sk6812(): 'Success' when the command function returns,
\* 'Error: ...' when it raises.
EndpointStatus(raised) == IF raised THEN "Error" ELSE "Success"

\* The endpoint returns: the locals of the request are gone.
Respond(t, raised) ==
    /\ status' = [status EXCEPT ![t] = IF Watched(t) THEN EndpointStatus(raised) ELSE "-"]
    /\ pc' = [pc EXCEPT ![t] = "idle"]
    /\ dev' = [dev EXCEPT ![t] = "lightswarm"]
    /\ cmd' = [cmd EXCEPT ![t] = NoCommand]
    /\ chan' = [chan EXCEPT ![t] = 1]
    /\ payload' = [payload EXCEPT ![t] = <<>>]
    /\ call' = [call EXCEPT ![t] = NoCall]

\* opens and writes of the request so far, the call c being its latest
PortCalls(c) == c.prior + c.opens + c.writes

\* lightswarm_command from the head of the for loop with index i: the loop
\* ends and the endpoint answers, or the body runs up to the call of
\* send_payload (through build_payload), or the body raises.
LsLoop(t, c, i) ==
    IF i > Len(c.channels)
    THEN Respond(t, FALSE)
    ELSE LET r == ls_channel_payload(c, c.channels[i]) IN
         IF r.ok
         THEN /\ payload' = [payload EXCEPT ![t] = r.val]
              /\ pc' = [pc EXCEPT ![t] = "acquire"]
              /\ dev' = [dev EXCEPT ![t] = "lightswarm"]
              /\ cmd' = [cmd EXCEPT ![t] = c]
              /\ chan' = [chan EXCEPT ![t] = i]
              /\ call' = [call EXCEPT ![t] = Hist(t,
                              [NoCall EXCEPT !.prior = PortCalls(call[t]),
                                             !.nth = call[t].nth + 1])]
              /\ status' = [status EXCEPT ![t] = "-"]
         ELSE Respond(t, TRUE)

\* sk6812_command up to the call of send_payload.
SkBuild(t, c) ==
    LET r == sk_payload(c) IN
    IF r.ok
    THEN /\ payload' = [payload EXCEPT ![t] = r.val]
         /\ pc' = [pc EXCEPT ![t] = "acquire"]
         /\ dev' = [dev EXCEPT ![t] = "sk6812"]
         /\ cmd' = [cmd EXCEPT ![t] = c]
         /\ chan' = [chan EXCEPT ![t] = 1]
         /\ call' = [call EXCEPT ![t] = Hist(t, [NoCall EXCEPT !.nth = 1])]
         /\ status' = [status EXCEPT ![t] = "-"]
    ELSE Respond(t, TRUE)

\* A worker thread takes a request for one of the two endpoints: the
\* endpoint function is entered with the parsed command.
Request(t, d, c) ==
    /\ pc[t] = "idle"
    /\ pc' = [pc EXCEPT ![t] = "cmd"]
    /\ dev' = [dev EXCEPT ![t] = d]
    /\ cmd' = [cmd EXCEPT ![t] = c]
    /\ chan' = [chan EXCEPT ![t] = 1]
    /\ payload' = [payload EXCEPT ![t] = <<>>]
    /\ call' = [call EXCEPT ![t] = NoCall]
    /\ status' = [status EXCEPT ![t] = "-"]
    /\ reqFailed' = [reqFailed EXCEPT ![t] = FALSE]
    /\ UNCHANGED <<lock, handle, leaked>>

Submit(t) == \E d \in Dev : \E c \in Commands(d) : Request(t, d, c)

\* lightswarm_command(command.model_dump()) / sk6812_command(...): the
\* command function runs up to its first call of send_payload, or returns,
\* or raises.
CallCommand(t) ==
    /\ pc[t] = "cmd"
    /\ IF dev[t] = "lightswarm" THEN LsLoop(t, cmd[t], 1) ELSE SkBuild(t, cmd[t])
    /\ UNCHANGED <<lock, handle, leaked, reqFailed>>

(***************************************************************************)
(* send_payload of lightswarm.py and of sk6812.py (the same code on the    *)
(* module's own lock and handle)                                           *)
(***************************************************************************)
InLock == {"isopen", "open", "write", "leave"}
InHandler == {"hcheck", "hisopen", "hclose", "hreset"}
\* past the with block or the handler, before the return or the raise;
\* "hraise" is an error on its way out of the SerialException handler
Leaving == {"ret", "raise", "hraise"}
InSend == {"acquire"} \cup InLock \cup InHandler \cup Leaving

M_CanAcquire(d) == TRUE

M_SharedLock(d) == \A e \in Dev : lock[e] = NoThread

\* `with serial_lock:` can be entered
CanAcquire(d) == lock[d] = NoThread

\* value of the lock when the with block is left with result res
Released(t, res) == NoThread

\* outcomes of serial.Serial(...): a handle, SerialException, or another error
OpenOutcomes == {"ok", "serial", "other"}

\* outcomes of handle.write(...): a port that is not open raises
WriteOutcomes(h) ==
    IF IsOpen(h) THEN {"ok", "serial", "other"} ELSE {"serial", "other"}

\* outcomes of handle.close(): closing a closed port does nothing
CloseOutcomes(h) ==
    IF IsOpen(h) THEN {"ok", "serial", "other"} ELSE {"ok"}

\* an open Serial object that lost its last name: the interpreter finalises
\* it at once (its finaliser calls close()) or leaves it open for now
DropOutcomes(wasOpen) == IF wasOpen THEN {TRUE, FALSE} ELSE {FALSE}

\* bytes(payload) / (json.dumps(payload) + '\n').encode()
WireBytes(d, p) ==
    IF d = "lightswarm" THEN p
    ELSE [k \in 1..(Len(p) + 1) |->
            IF k <= Len(p)
            THEN <<"index", p[k].index, "set", p[k].set,
                   "brightness", p[k].brightness, "effect", p[k].effect>>
            ELSE <<"\n">>]

M_UnexpectedOutcome == "returned"

\* what `except Exception` does with the error after printing it
UnexpectedOutcome == "raised"

\* except Exception: print(...); raise -- the call c ends, the state being st
\* when the error leaves send_payload
Unexpected(c, st) ==
    [c EXCEPT !.logged = "unexpected", !.outcome = UnexpectedOutcome, !.retState = st,
              !.own = FALSE]

\* value assigned to the global at the end of the SerialException handler
ResetValue(d) == NoHandle

\* where control goes when the open or the write ends with result res
AfterIO(res, next) ==
    CASE res = "ok" -> next
      [] res = "serial" -> "hcheck"
      [] OTHER -> "raise"

\* The thread t assigns the global of device d, its own record becoming c:
\* the global no longer refers to the object another call in progress used.
Assigned(t, d, c) ==
    [u \in Thread |->
        IF u = t THEN c
        ELSE IF dev[u] = d THEN [call[u] EXCEPT !.own = FALSE]
        ELSE call[u]]

\* with serial_lock:
\*     if not lightswarm ...
\* The lock is taken and the global is read for the first time in one step:
\* nothing another thread does in between reads the lock.
Enter(t) ==
    LET d == dev[t]
        c == [call[t] EXCEPT !.entry = ConnState(handle[d])]
    IN
    /\ pc[t] = "acquire"
    /\ CanAcquire(d)
    /\ lock' = [lock EXCEPT ![d] = t]
    /\ pc' = [pc EXCEPT ![t] = IF handle[d] = NoHandle THEN "open" ELSE "isopen"]
    /\ call' = [call EXCEPT ![t] = Hist(t, c)]
    /\ UNCHANGED <<handle, leaked, dev, cmd, chan, payload, status, reqFailed>>

\*     ... or not lightswarm.is_open: the second read of the global; an
\* AttributeError leaves the with block, which releases the lock
IsOpenCheck(t) ==
    LET d == dev[t]
        h == handle[d]
    IN
    /\ pc[t] = "isopen"
    /\ IF h = NoHandle
       THEN \* 'NoneType' object has no attribute 'is_open'
            /\ call' = [call EXCEPT ![t] = Hist(t, [call[t] EXCEPT !.attrErr = TRUE])]
            /\ pc' = [pc EXCEPT ![t] = "raise"]
            /\ lock' = [lock EXCEPT ![d] = Released(t, "other")]
       ELSE /\ call' = [call EXCEPT ![t] = Hist(t, [call[t] EXCEPT !.own = IsOpen(h)])]
            /\ pc' = [pc EXCEPT ![t] = IF IsOpen(h) THEN "write" ELSE "open"]
            /\ UNCHANGED lock
    /\ UNCHANGED <<handle, leaked, dev, cmd, chan, payload, status, reqFailed>>

\*     lightswarm = serial.Serial(ser, baud, timeout); an exception leaves
\* the with block, which releases the lock
Open(t) ==
    LET d == dev[t] IN
    /\ pc[t] = "open"
    /\ \E res \in OpenOutcomes :
        LET o == [call[t] EXCEPT !.opens = @ + 1, !.openRes = res,
                                 !.own = (res = "ok")]
        IN
        /\ pc' = [pc EXCEPT ![t] = AfterIO(res, "write")]
        /\ handle' = [handle EXCEPT ![d] = IF res = "ok" THEN "open" ELSE @]
        /\ lock' = [lock EXCEPT ![d] = IF res = "ok" THEN t ELSE Released(t, res)]
        /\ call' = IF res = "ok" THEN Assigned(t, d, Hist(t, o))
                   ELSE [call EXCEPT ![t] = Hist(t, o)]
    /\ UNCHANGED <<leaked, dev, cmd, chan, payload, status, reqFailed>>

\*     lightswarm.write(bytes(payload)); an exception leaves the with block,
\* which releases the lock
Write(t) ==
    LET d == dev[t]
        h == handle[d]
    IN
    /\ pc[t] = "write"
    /\ IF h = NoHandle
       THEN \* 'NoneType' object has no attribute 'write'
            /\ call' = [call EXCEPT ![t] = Hist(t, [call[t] EXCEPT !.attrErr = TRUE])]
            /\ pc' = [pc EXCEPT ![t] = "raise"]
            /\ lock' = [lock EXCEPT ![d] = Released(t, "other")]
       ELSE \E res \in WriteOutcomes(h) :
            LET w == [call[t] EXCEPT !.writes = @ + 1, !.writeRes = res,
                                     !.written = WireBytes(d, payload[t])]
            IN
            /\ call' = [call EXCEPT ![t] = Hist(t, w)]
            /\ pc' = [pc EXCEPT ![t] = AfterIO(res, "leave")]
            /\ lock' = [lock EXCEPT ![d] = IF res = "ok" THEN t ELSE Released(t, res)]
    /\ UNCHANGED <<handle, leaked, dev, cmd, chan, payload, status, reqFailed>>

\* the end of the with block after a write that succeeded: the lock is
\* released
Leave(t) ==
    LET d == dev[t] IN
    /\ pc[t] = "leave"
    /\ lock' = [lock EXCEPT ![d] = Released(t, "ok")]
    /\ pc' = [pc EXCEPT ![t] = "ret"]
    /\ UNCHANGED <<handle, leaked, dev, cmd, chan, payload, call, status, reqFailed>>

\* send_payload returns, after the with block or after the handler
EndCall(t) ==
    LET d == dev[t] IN
    /\ pc[t] = "ret"
    /\ call' = [call EXCEPT ![t] = Hist(t,
                    [call[t] EXCEPT !.outcome = "returned",
                                    !.retState = ConnState(handle[d]),
                                    !.own = FALSE])]
    /\ pc' = [pc EXCEPT ![t] = "exit"]
    /\ UNCHANGED <<lock, handle, leaked, dev, cmd, chan, payload, status, reqFailed>>

\* An error raised inside the SerialException handler, which no except
\* clause catches, leaves send_payload.
Propagate(t) ==
    LET d == dev[t] IN
    /\ pc[t] = "hraise"
    /\ call' = [call EXCEPT ![t] = Hist(t,
                    [call[t] EXCEPT !.outcome = "raised",
                                    !.retState = ConnState(handle[d]),
                                    !.own = FALSE])]
    /\ pc' = [pc EXCEPT ![t] = "exit"]
    /\ UNCHANGED <<lock, handle, leaked, dev, cmd, chan, payload, status, reqFailed>>

\* except Exception as error: print(...); raise
Raise(t) ==
    LET d == dev[t] IN
    /\ pc[t] = "raise"
    /\ call' = [call EXCEPT ![t] = Hist(t, Unexpected(call[t], ConnState(handle[d])))]
    /\ pc' = [pc EXCEPT ![t] = "exit"]
    /\ UNCHANGED <<lock, handle, leaked, dev, cmd, chan, payload, status, reqFailed>>

\* except serial.SerialException: print(...); if lightswarm ...
HCheck(t) ==
    LET d == dev[t] IN
    /\ pc[t] = "hcheck"
    /\ call' = [call EXCEPT ![t] = Hist(t, [call[t] EXCEPT !.logged = "serial"])]
    /\ reqFailed' = [reqFailed EXCEPT ![t] = Watched(t)]
    /\ pc' = [pc EXCEPT ![t] = IF handle[d] = NoHandle THEN "hreset" ELSE "hisopen"]
    /\ UNCHANGED <<lock, handle, leaked, dev, cmd, chan, payload, status>>

\*     ... and lightswarm.is_open: the second read of the global; an
\* AttributeError is on its way out of send_payload
HIsOpen(t) ==
    LET d == dev[t]
        h == handle[d]
    IN
    /\ pc[t] = "hisopen"
    /\ IF h = NoHandle
       THEN \* 'NoneType' object has no attribute 'is_open'
            /\ call' = [call EXCEPT ![t] = Hist(t, [call[t] EXCEPT !.attrErr = TRUE])]
            /\ pc' = [pc EXCEPT ![t] = "hraise"]
       ELSE /\ pc' = [pc EXCEPT ![t] = IF IsOpen(h) THEN "hclose" ELSE "hreset"]
            /\ UNCHANGED call
    /\ UNCHANGED <<lock, handle, leaked, dev, cmd, chan, payload, status, reqFailed>>

\* lightswarm.close() inside try / except serial.SerialException: pass; an
\* error that is not a SerialException is on its way out of send_payload
HClose(t) ==
    LET d == dev[t]
        h == handle[d]
    IN
    /\ pc[t] = "hclose"
    /\ IF h = NoHandle
       THEN \* 'NoneType' object has no attribute 'close'
            /\ call' = [call EXCEPT ![t] = Hist(t, [call[t] EXCEPT !.attrErr = TRUE])]
            /\ pc' = [pc EXCEPT ![t] = "hraise"]
            /\ UNCHANGED handle
       ELSE \E res \in CloseOutcomes(h) :
            LET hs == IF res = "ok" THEN "closed" ELSE "closefailed" IN
            /\ handle' = [handle EXCEPT ![d] = hs]
            /\ call' = [call EXCEPT ![t] = Hist(t,
                            [call[t] EXCEPT !.closes = @ + 1, !.closeRes = res])]
            /\ pc' = [pc EXCEPT ![t] = IF res = "other" THEN "hraise" ELSE "hreset"]
    /\ UNCHANGED <<lock, leaked, dev, cmd, chan, payload, status, reqFailed>>

\* lightswarm = None.  An open object on which close() was never called
\* loses its name; one dropped earlier may be finalised now.
HReset(t) ==
    LET d == dev[t]
        h == ResetValue(d)
    IN
    /\ pc[t] = "hreset"
    /\ handle' = [handle EXCEPT ![d] = h]
    /\ \E l \in DropOutcomes(leaked[d] \/ (h = NoHandle /\ handle[d] = "open")) :
        leaked' = [leaked EXCEPT ![d] = l]
    /\ call' = Assigned(t, d, Hist(t, [call[t] EXCEPT !.own = FALSE]))
    /\ pc' = [pc EXCEPT ![t] = "ret"]
    /\ UNCHANGED <<lock, dev, cmd, chan, payload, status, reqFailed>>

\* The interpreter finalises an open Serial object no name refers to:
\* io.IOBase.__del__ calls close().
Finalise(d) ==
    /\ leaked[d]
    /\ leaked' = [leaked EXCEPT ![d] = FALSE]
    /\ UNCHANGED <<lock, handle, pc, dev, cmd, chan, payload, call, status, reqFailed>>

\* Back in the caller of send_payload: an error propagates to the endpoint,
\* lightswarm_command goes on with the next channel, sk6812_command returns.
Return(t) ==
    /\ pc[t] = "exit"
    /\ IF call[t].outcome = "raised"
       THEN Respond(t, TRUE)
       ELSE IF dev[t] = "lightswarm"
       THEN LsLoop(t, cmd[t], chan[t] + 1)
       ELSE Respond(t, FALSE)
    /\ UNCHANGED <<lock, handle, leaked, reqFailed>>

Next ==
    /\ \/ \E t \in Thread :
            \/ Submit(t)
            \/ CallCommand(t)
            \/ Enter(t)
            \/ IsOpenCheck(t)
            \/ Open(t)
            \/ Write(t)
            \/ Leave(t)
            \/ HCheck(t)
            \/ HIsOpen(t)
            \/ HClose(t)
            \/ HReset(t)
            \/ EndCall(t)
            \/ Propagate(t)
            \/ Raise(t)
            \/ Return(t)
       \/ \E d \in Dev : Finalise(d)
    /\ UNCHANGED <<req, applied>>

Spec == Init /\ [][Next]_vars

(***************************************************************************)
(* One worker serving requests with any list of channels                   *)
(***************************************************************************)
Main == CHOOSE t \in Thread : Watched(t)

\* lists of at most n elements of S
SeqsUpTo(S, n) == UNION {[1..k -> S] : k \in 0..n}

\* Channel lists (the request schema accepts a list of anything): lists of
\* two addresses, and such lists followed by an element that is not an
\* integer.
ChannelLists ==
    SeqsUpTo({IntV(1), IntV(192)}, MaxChannels) \cup
    {Append(s, StrV) : s \in SeqsUpTo({IntV(1), IntV(192)}, MaxChannels - 1)}

\* action and level of the Lightswarm requests: valid without and with a
\* parameter, out of range, missing, unknown
LsKinds ==
    {<<"on", NoneV>>, <<"level", IntV(10)>>, <<"level", IntV(300)>>,
     <<"level", NoneV>>, <<"blink", NoneV>>}

\* LightswarmCommand / SK6812Command after model_dump()
AnyCommands(d) ==
    IF d = "lightswarm"
    THEN {[channels |-> s, action |-> k[1], level |-> k[2], interval |-> NoneV,
           step |-> NoneV, pseudo_address |-> NoneV] :
            s \in ChannelLists, k \in LsKinds}
    ELSE [channels : ChannelLists, colour : {"red", "purple"},
          brightness : {1}, effect : {"none"}]

SubmitAny(t) ==
    /\ \E d \in Dev : \E c \in AnyCommands(d) : Request(t, d, c)
    /\ req' = NoRequest
    /\ UNCHANGED applied

CallAny(t) ==
    /\ CallCommand(t)
    /\ req' = [dev |-> dev[t], command |-> cmd[t]]
    /\ UNCHANGED applied

Serve(t) ==
    /\ \/ Enter(t)
       \/ IsOpenCheck(t)
       \/ Open(t)
       \/ Write(t)
       \/ Leave(t)
       \/ HCheck(t)
       \/ HIsOpen(t)
       \/ HClose(t)
       \/ HReset(t)
       \/ EndCall(t)
       \/ Propagate(t)
       \/ Raise(t)
       \/ Return(t)
    /\ UNCHANGED <<req, applied>>

CmdNext == SubmitAny(Main) \/ CallAny(Main) \/ Serve(Main)

CmdSpec == Init /\ [][CmdNext]_vars

(***************************************************************************)
(* Commands of several channels served while other requests are served     *)
(***************************************************************************)
\* a valid command for MaxChannels channels
LoopCommand ==
    [channels |-> [k \in 1..MaxChannels |-> IF k % 2 = 0 THEN IntV(192) ELSE IntV(1)],
     action |-> "on", level |-> NoneV, interval |-> NoneV, step |-> NoneV,
     pseudo_address |-> NoneV]

\* a command for one channel
OtherCommand == [LoopCommand EXCEPT !.channels = <<IntV(1)>>]

\* one worker serves the command of several channels, the others serve
\* commands of one channel, all on the Lightswarm endpoint
SubmitLoop(t) ==
    Request(t, "lightswarm", IF Watched(t) THEN LoopCommand ELSE OtherCommand)

LoopNext ==
    /\ \/ \E t \in Thread :
            \/ SubmitLoop(t)
            \/ CallCommand(t)
            \/ Enter(t)
            \/ IsOpenCheck(t)
            \/ Open(t)
            \/ Write(t)
            \/ Leave(t)
            \/ HCheck(t)
            \/ HIsOpen(t)
            \/ HClose(t)
            \/ HReset(t)
            \/ EndCall(t)
            \/ Propagate(t)
            \/ Raise(t)
            \/ Return(t)
       \/ Finalise("lightswarm")
    /\ UNCHANGED <<req, applied>>

LoopSpec == Init /\ [][LoopNext]_vars

TypeOK ==
    /\ lock \in [Dev -> Thread \cup {NoThread}]
    /\ handle \in [Dev -> {NoHandle, "open", "closed", "closefailed"}]
    /\ leaked \in [Dev -> BOOLEAN]
    /\ \A t \in Thread : pc[t] \in {"idle", "cmd", "exit"} \cup InSend

(***************************************************************************)
(* The functions of the encoder applied on their own                       *)
(***************************************************************************)
\* the names of the protocol, in the table or commented out of it, and two
\* that are not of the protocol
ActionNames ==
    DOMAIN ls_codes \cup
    {"erase_pseudo", "media_function", "event_start", "event_stop",
     "data_forward", "mech_command", "set_rgb", "flash", "flash_rgb",
     "fade_multi", "fade_rgb", "config", "blink", ""}

ParamValues == {NoneV} \cup {IntV(n) : n \in {-1, 0, 1, 255, 256}}

PseudoValues ==
    {NoneV} \cup {IntV(n) : n \in {-1, 0, 255, 256, 49371, 65535, 65536, 70000}}

EncCommands ==
    [action : {"on", "off", "toggle", "level", "fade", "set_pseudo"},
     level : ParamValues, interval : ParamValues, step : ParamValues,
     pseudo_address : PseudoValues]

ChannelValues == {-1, 0, 10, 192, 219, 49371, 65535, 65536}

ByteValues == {-1, 0, 1, 191, 192, 219, 220, 221, 255, 256}

Inputs(f) ==
    CASE f = "get_command_code" -> {<<a>> : a \in ActionNames}
      [] f = "check_value" ->
            ({NoneV} \cup {IntV(n) : n \in {-1, 0, 1, 2, 128, 254, 255, 256}})
                \X {"level"} \X SeqsUpTo({0, 1, 255}, MaxRange)
      [] f = "get_extra_payload_data" -> {<<c>> : c \in EncCommands}
      [] f = "lightswarm_command" -> EncCommands \X ChannelValues
      [] f = "build_payload" -> {<<b>> : b \in SeqsUpTo(ByteValues, MaxLen)}

Functions ==
    {"get_command_code", "check_value", "get_extra_payload_data",
     "lightswarm_command", "build_payload"}

EncInit ==
    /\ AtRest
    /\ fn \in Functions
    /\ arg \in Inputs(fn)
    /\ result = Pending

Apply(f, r) ==
    /\ fn = f
    /\ result = Pending
    /\ result' = r
    /\ UNCHANGED <<fn, arg, req>>

AtRestStill ==
    UNCHANGED <<lock, handle, leaked, pc, dev, cmd, chan, payload, call, status,
                reqFailed>>

Apply_get_command_code ==
    Apply("get_command_code", ls_get_command_code(arg[1])) /\ AtRestStill

Apply_check_value ==
    Apply("check_value", check_value(arg[1], arg[2], arg[3])) /\ AtRestStill

Apply_get_extra_payload_data ==
    Apply("get_extra_payload_data", get_extra_payload_data(arg[1])) /\ AtRestStill

\* the body of the loop of lightswarm_command up to the call of build_payload
Apply_ls_byte_array ==
    Apply("lightswarm_command", ls_byte_array(arg[1], arg[2])) /\ AtRestStill

\* build_payload raises, or calls send_payload with the framed payload
Apply_build_payload ==
    LET r == build_payload(arg[1]) IN
    /\ Apply("build_payload", r)
    /\ IF r.ok
       THEN /\ payload' = [payload EXCEPT ![Main] = r.val]
            /\ pc' = [pc EXCEPT ![Main] = "acquire"]
       ELSE UNCHANGED <<payload, pc>>
    /\ UNCHANGED <<lock, handle, leaked, dev, cmd, chan, call, status, reqFailed>>

EncNext ==
    \/ Apply_get_command_code
    \/ Apply_check_value
    \/ Apply_get_extra_payload_data
    \/ Apply_ls_byte_array
    \/ Apply_build_payload

EncSpec == EncInit /\ [][EncNext]_vars

(***************************************************************************)
(* Properties of the transport                                             *)
(***************************************************************************)
\* the call of the watched thread t has ended
Ended(t) == Watched(t) /\ pc[t] = "exit"

\* C1: the section "check the connection, open if needed, write" of a device
\* is executed by at most one thread at a time, by the holder of the device
\* lock, and each write is handed the whole payload of its own call.
C1_LockSection ==
    /\ \A d \in Dev :
        Cardinality({t \in Thread : dev[t] = d /\ pc[t] \in InLock}) <= 1
    /\ \A t \in Thread : pc[t] \in InLock => lock[dev[t]] = t
    /\ \A t \in Thread :
        (Watched(t) /\ call[t].writes > 0) =>
            /\ call[t].writes = 1
            /\ call[t].written = WireBytes(dev[t], payload[t])

C1_Witness ==
    \E t, u \in Thread :
        /\ Watched(t) /\ u # t /\ dev[u] = dev[t]
        /\ Ended(t) /\ call[t].writeRes = "ok"
        /\ call[t].written = <<192, 0, 219, 220, 32, 224, 192>>
        /\ pc[u] = "write"

\* C2: at most one serial handle of a device is open and unclosed at any time.
C2_OneOpenHandle == \A d \in Dev : Unclosed(d) <= 1

\* C3: a call whose open (when the state on entry is Disconnected) and whose
\* write succeed opens the port exactly once from Disconnected and not at
\* all from Connected, writes the payload exactly once and returns with the
\* state Connected.
C3_SuccessfulSend ==
    \A t \in Thread :
        (Ended(t) /\ call[t].openRes \in {"-", "ok"} /\ call[t].writeRes = "ok") =>
            /\ call[t].entry = "D" => call[t].opens = 1 /\ call[t].openRes = "ok"
            /\ call[t].entry = "C" => call[t].opens = 0
            /\ call[t].writes = 1
            /\ call[t].written = WireBytes(dev[t], payload[t])
            /\ call[t].closes = 0
            /\ call[t].outcome = "returned"
            /\ call[t].retState = "C"

\* C4: when the write fails with a serial error the call attempts to close
\* the handle exactly once, ends Disconnected, returns normally also when the
\* close fails with a serial error, and has called write exactly once.
C4_WriteFailure ==
    \A t \in Thread :
        (Ended(t) /\ call[t].writeRes = "serial" /\ call[t].closeRes # "other") =>
            /\ call[t].closes = 1
            /\ call[t].retState = "D"
            /\ call[t].outcome = "returned"
            /\ call[t].writes = 1

\* C5: when the state on entry is Disconnected and the open fails with a
\* serial error, the call returns, it has not called write, and the state is
\* Disconnected when it returns.
C5_OpenFailure ==
    \A t \in Thread :
        (Ended(t) /\ call[t].entry = "D" /\ call[t].openRes = "serial"
                  /\ call[t].closeRes # "other") =>
            /\ call[t].writes = 0
            /\ call[t].written = <<>>
            /\ call[t].outcome = "returned"
            /\ call[t].retState = "D"

\* C6: a send that failed with a serial error is reported as a failure, by
\* send_payload and by the endpoint.
C6_CallerInformed ==
    \A t \in Thread :
        /\ (Ended(t) /\ (call[t].openRes = "serial" \/ call[t].writeRes = "serial"))
                => call[t].outcome = "raised"
        /\ (Watched(t) /\ pc[t] = "idle" /\ reqFailed[t]) => status[t] = "Error"

\* C7: a failure of the open or of the write that is not a serial error is
\* logged and propagated to the caller, and the device lock is not held
\* while it propagates.
C7_UnexpectedPropagates ==
    \A t \in Thread :
        /\ (Ended(t) /\ (call[t].openRes = "other" \/ call[t].writeRes = "other")) =>
                /\ call[t].logged = "unexpected"
                /\ call[t].outcome = "raised"
        /\ pc[t] \in {"raise", "exit"} => lock[dev[t]] # t

C7_Witness ==
    \E t \in Thread :
        /\ Ended(t) /\ call[t].writeRes = "other"
        /\ call[t].outcome = "raised" /\ call[t].logged = "unexpected"
        /\ lock[dev[t]] = NoThread

C8_EndsDisconnected ==
    \A t \in Thread :
        (Ended(t) /\ (call[t].openRes \in {"serial", "other"}
                      \/ call[t].writeRes \in {"serial", "other"})
                  /\ call[t].closeRes # "other") =>
            call[t].retState = "D"

\* C8: the state is Disconnected at the start and at the end of every call
\* in which the open or the write failed, whatever the failure.
C8_FailureDisconnects ==
    (\A d \in Dev : Disconnected(d)) /\ []C8_EndsDisconnected

\* C9: no terminal state: the lock is held only by a thread inside the with
\* block, so it is free when no send is in progress; a call that finds the
\* state Disconnected attempts to open; and when that open and the write
\* have succeeded the payload is written, the state is Connected, and the
\* call returns.
C9_Recovers ==
    /\ \A d \in Dev : \A t \in Thread :
        lock[d] = t => pc[t] \in InLock /\ dev[t] = d
    /\ (\A t \in Thread : pc[t] \notin InSend) => \A d \in Dev : lock[d] = NoThread
    /\ \A t \in Thread :
        (Watched(t) /\ call[t].entry = "D"
            /\ pc[t] \in {"write", "leave", "exit"} \cup InHandler \cup Leaving) =>
            /\ call[t].opens = 1
            /\ pc[t] = "leave" =>
                    /\ call[t].openRes = "ok" /\ call[t].writeRes = "ok"
                    /\ call[t].written = WireBytes(dev[t], payload[t])
                    /\ ConnState(handle[dev[t]]) = "C"
            /\ (pc[t] = "exit" /\ call[t].openRes = "ok" /\ call[t].writeRes = "ok") =>
                    /\ call[t].written = WireBytes(dev[t], payload[t])
                    /\ call[t].outcome = "returned"

\* C10: a step changes the lock and the connection state of a device only
\* when a send on that device takes it, and a send waits for the lock of its
\* own device only.
C10_NoWait ==
    \A t \in Thread :
        (pc[t] = "acquire" /\ lock[dev[t]] = NoThread) => ENABLED Enter(t)

C10_Frame ==
    \A d \in Dev :
        (handle'[d] # handle[d] \/ lock'[d] # lock[d]) =>
            \E t \in Thread : dev[t] = d /\ pc[t] \in InSend /\ pc'[t] # pc[t]

C10_Independent == [](C10_NoWait) /\ [][C10_Frame]_vars

C10_Witness ==
    \E t, u \in Thread :
        /\ Ended(t) /\ dev[t] = "lightswarm" /\ call[t].writeRes = "serial"
        /\ handle["lightswarm"] = NoHandle
        /\ dev[u] = "sk6812" /\ pc[u] = "write" /\ handle["sk6812"] = "open"

(***************************************************************************)
(* Properties of the command functions                                     *)
(***************************************************************************)
\* the name of the request r is not in the catalog of its protocol
UnknownName(r) ==
    \/ r.dev = "lightswarm" /\ r.command.action \notin DOMAIN ls_codes
    \/ r.dev = "sk6812" /\ r.command.colour \notin DOMAIN sk_codes

\* the step is taken by the thread t alone: nothing of another thread and,
\* when t is not inside send_payload, nothing of the devices changes
StepOf(t) ==
    /\ \A u \in Thread \ {t} :
            pc'[u] = pc[u] /\ call'[u] = call[u] /\ status'[u] = status[u]
    /\ UNCHANGED <<lock, handle, leaked>>

\* the step ends the request of t with an error that was raised by the
\* command function itself, not by send_payload: the command function
\* raises before its first call of send_payload, or the loop raises after a
\* send_payload call that returned
RaisesInCommand(t) ==
    /\ Watched(t) /\ StepOf(t)
    /\ pc'[t] = "idle" /\ status'[t] = "Error"
    /\ \/ pc[t] = "cmd"
       \/ pc[t] = "exit" /\ call[t].outcome = "returned"

\* C11: when a command ends with an error that its own validation of the
\* request raises, no open and no write was made for any channel of that
\* command before the error.
C11_NoPartialWrites ==
    [][\A t \in Thread : RaisesInCommand(t) => PortCalls(call[t]) = 0]_vars

\* C12: a request whose action or colour name is not in the catalog fails,
\* whatever its list of channels, and nothing of it reaches send_payload.
C12_UnknownNameFails ==
    (req.dev # "-" /\ UnknownName(req)) =>
        /\ pc[Main] = "idle"
        /\ status[Main] = "Error"

(***************************************************************************)
(* Properties of the encoder                                               *)
(***************************************************************************)
\* the function f has been applied
Applied(f) == fn = f /\ result # Pending

Unknown == "ValueError: Unknown action"
MissingValue == "ValueError: missing a required value"
OutOfRange == "ValueError: must be between"
InvalidRange == "ValueError: bracket needs exactly 2 values"
ByteOutOfRange == "ValueError: 8 bit value expected"

\* the opcodes of the six implemented actions
Implemented ==
    [a \in {"on", "off", "level", "fade", "set_pseudo", "toggle"} |->
        CASE a = "on" -> 32
          [] a = "off" -> 33
          [] a = "level" -> 34
          [] a = "fade" -> 35
          [] a = "set_pseudo" -> 37
          [] a = "toggle" -> 45]

\* C13: the lookup succeeds for exactly the six implemented names, with
\* their opcodes, and fails as unknown for every other name.
C13_CatalogExactlySix ==
    Applied("get_command_code") =>
        IF arg[1] \in DOMAIN Implemented
        THEN result = Ok(Implemented[arg[1]])
        ELSE ~result.ok /\ result.err = Unknown

InRange(v, lo, hi) == v.tag = "int" /\ lo <= v.v /\ v.v <= hi

\* C14: against a declared range an integer outside it fails with
\* OutOfRange, and one inside it or at a bound is returned unchanged.
C14_DeclaredRanges ==
    /\ (Applied("check_value") /\ arg[1].tag = "int" /\ Len(arg[3]) = 2) =>
            IF InRange(arg[1], arg[3][1], arg[3][2])
            THEN result = Ok(arg[1].v)
            ELSE ~result.ok /\ result.err = OutOfRange
    /\ (Applied("get_extra_payload_data") /\ arg[1].action = "level"
            /\ arg[1].level.tag = "int") =>
            IF InRange(arg[1].level, 0, 255)
            THEN result = Ok(<<arg[1].level.v>>)
            ELSE ~result.ok /\ result.err = OutOfRange
    /\ (Applied("get_extra_payload_data") /\ arg[1].action = "fade"
            /\ arg[1].level.tag = "int" /\ arg[1].interval.tag = "int"
            /\ arg[1].step.tag = "int") =>
            IF /\ InRange(arg[1].level, 0, 255)
               /\ InRange(arg[1].interval, 1, 255)
               /\ InRange(arg[1].step, 0, 255)
            THEN result = Ok(<<arg[1].level.v, arg[1].interval.v, arg[1].step.v>>)
            ELSE ~result.ok /\ result.err = OutOfRange

C14_Witness ==
    /\ Applied("get_extra_payload_data") /\ arg[1].action = "fade"
    /\ arg[1].level = IntV(255) /\ arg[1].interval = IntV(1)
    /\ arg[1].step = IntV(0)
    /\ result = Ok(<<255, 1, 0>>)

\* C15: an integer validated against a range that does not have exactly two
\* elements fails with InvalidRange.
C15_InvalidRange ==
    (Applied("check_value") /\ arg[1].tag = "int" /\ Len(arg[3]) # 2) =>
        ~result.ok /\ result.err = InvalidRange

\* C16: set_pseudo fails with MissingValue without a pseudo_address, rejects
\* one outside 0..65535, and encodes p in 0..65535 as [p div 256, p mod 256].
C16_PseudoAddress ==
    (Applied("get_extra_payload_data") /\ arg[1].action = "set_pseudo") =>
        LET p == arg[1].pseudo_address IN
        CASE p.tag = "none" -> ~result.ok /\ result.err = MissingValue
          [] p.tag = "int" /\ (p.v < 0 \/ p.v > 65535) -> ~result.ok
          [] OTHER -> result = Ok(<<p.v \div 256, p.v % 256>>)

\* bit k of the byte b
Bit(b, k) == (b \div (2 ^ k)) % 2

\* number of the bytes s[1..n] whose bit k is set
RECURSIVE BitCount(_, _, _)
BitCount(s, n, k) == IF n = 0 THEN 0 ELSE BitCount(s, n - 1, k) + Bit(s[n], k)

\* c is the bitwise XOR of the bytes s[1..n]
IsXorOf(c, s, n) ==
    /\ c \in 0..255
    /\ \A k \in 0..7 : Bit(c, k) = BitCount(s, n, k) % 2

\* the extra bytes of the action of command c, its parameters being valid
ExtraBytes(c) ==
    CASE c.action = "level" -> <<c.level.v>>
      [] c.action = "fade" -> <<c.level.v, c.interval.v, c.step.v>>
      [] c.action = "set_pseudo" ->
            <<c.pseudo_address.v \div 256, c.pseudo_address.v % 256>>
      [] OTHER -> <<>>

\* the encoder produced a sequence for a 16-bit channel address and, for
\* set_pseudo, a 16-bit pseudo address
Encoded ==
    /\ Applied("lightswarm_command") /\ result.ok
    /\ arg[2] \in 0..65535
    /\ arg[1].action = "set_pseudo" => arg[1].pseudo_address.v \in 0..65535

\* C17: the sequence built for a channel is the address high byte, the
\* address low byte, the opcode, the extra bytes of the action, and last the
\* XOR of all the bytes before it.
C17_RawSequence ==
    Encoded =>
        LET b == result.val
            n == Len(b) - 1
        IN  /\ n >= 3
            /\ SubSeq(b, 1, n) =
                    <<arg[2] \div 256, arg[2] % 256, Implemented[arg[1].action]>>
                        \o ExtraBytes(arg[1])
            /\ IsXorOf(b[n + 1], b, n)

C17_Witness ==
    /\ Applied("lightswarm_command")
    /\ arg[2] = 49371 /\ arg[1].action = "fade"
    /\ arg[1].level = IntV(255) /\ arg[1].interval = IntV(1)
    /\ arg[1].step = IntV(0)
    /\ result = Ok(<<192, 219, 35, 255, 1, 0, 198>>)

\* C18: every byte of a sequence the encoder builds, for any integer channel
\* and any parameters that pass validation, is in 0..255, so that
\* build_payload accepts the sequence.
C18_BytesInRange ==
    (Applied("lightswarm_command") /\ result.ok) =>
        /\ \A k \in 1..Len(result.val) : result.val[k] \in 0..255
        /\ build_payload(result.val).ok

C18_Witness ==
    /\ Applied("lightswarm_command")
    /\ arg[2] = -1 /\ arg[1].action = "set_pseudo"
    /\ arg[1].pseudo_address = IntV(70000)
    /\ result = Ok(<<255, 255, 37, 17, 112, 68>>)

\* the bytes a frame body stands for
RECURSIVE Unstuff(_)
Unstuff(s) ==
    IF s = <<>> THEN <<>>
    ELSE IF s[1] = 219 /\ Len(s) >= 2
    THEN <<IF s[2] = 220 THEN 192 ELSE 219>> \o Unstuff(SubSeq(s, 3, Len(s)))
    ELSE <<s[1]>> \o Unstuff(SubSeq(s, 2, Len(s)))

AllBytes(s) == \A k \in 1..Len(s) : s[k] \in 0..255

\* C19: the frame of a sequence of bytes begins and ends with 0xC0, has no
\* other 0xC0, every 0xDB in it is followed by 0xDC or 0xDD, and its body
\* stands for the input, byte by byte and in order.
C19_Framing ==
    (Applied("build_payload") /\ AllBytes(arg[1])) =>
        /\ result.ok
        /\ LET p == result.val
               n == Len(p)
           IN  /\ n >= 2 /\ p[1] = 192 /\ p[n] = 192
               /\ \A k \in 2..(n - 1) :
                    /\ p[k] # 192
                    /\ p[k] = 219 => k + 1 < n /\ p[k + 1] \in {220, 221}
               /\ Unstuff(SubSeq(p, 2, n - 1)) = arg[1]
               /\ n = 2 + Len(arg[1])
                        + Cardinality({k \in 1..Len(arg[1]) : arg[1][k] \in {192, 219}})

C19_Witness ==
    /\ Applied("build_payload")
    /\ arg[1] = <<192, 219, 1>>
    /\ result = Ok(<<192, 219, 220, 219, 221, 1, 192>>)

\* C20: a sequence with a value outside 0..255 at any position makes
\* build_payload fail with ByteOutOfRange, and send_payload is not called.
C20_ByteOutOfRange ==
    (Applied("build_payload") /\ ~AllBytes(arg[1])) =>
        /\ ~result.ok /\ result.err = ByteOutOfRange
        /\ pc[Main] = "idle" /\ payload[Main] = <<>>

C20_Witness ==
    /\ Applied("build_payload")
    /\ arg[1] = <<0, 192, 256>>
    /\ ~result.ok /\ pc[Main] = "idle"

(***************************************************************************)
(* Properties of the handler and of the channel loop                       *)
(***************************************************************************)
\* the single worker is inside a send_payload call or back from it
InCall == pc[Main] \in InSend \cup {"exit"}

\* every element of the channel list s is an integer
IntChannels(s) == \A k \in 1..Len(s) : s[k].tag = "int"

\* the Lightswarm command c passes the catalog and the validator
ValidLs(c) == ls_get_command_code(c.action).ok /\ get_extra_payload_data(c).ok

\* p is one frame: delimiters at both ends and nowhere else
OneFrame(p) ==
    /\ Len(p) >= 2 /\ p[1] = 192 /\ p[Len(p)] = 192
    /\ \A k \in 2..(Len(p) - 1) : p[k] # 192

\* every send_payload call of a Lightswarm command is the i-th call for the
\* i-th channel and carries the frame of that channel's sequence only
C21_EachCall ==
    (req.dev = "lightswarm" /\ InCall) =>
        LET c == req.command
            i == call[Main].nth
            p == payload[Main]
        IN  /\ ValidLs(c)
            /\ i \in 1..Len(c.channels) /\ chan[Main] = i
            /\ c.channels[i].tag = "int"
            /\ OneFrame(p)
            /\ Unstuff(SubSeq(p, 2, Len(p) - 1)) =
                    ls_byte_array(c, c.channels[i].v).val
            /\ call[Main].writes <= 1
            /\ call[Main].writes = 1 => call[Main].written = p

\* the command function has just been called with a valid Lightswarm command
StartsValidLs ==
    /\ pc[Main] = "cmd" /\ pc'[Main] # "cmd"
    /\ req'.dev = "lightswarm"
    /\ ValidLs(req'.command) /\ IntChannels(req'.command.channels)

\* the first call is made, for the first channel; a command for no channel
\* returns without a call
C21_FirstCall ==
    StartsValidLs =>
        IF Len(req'.command.channels) > 0
        THEN pc'[Main] = "acquire" /\ call'[Main].nth = 1
        ELSE pc'[Main] = "idle" /\ status'[Main] = "Success"

\* the worker leaves a send_payload call of a valid Lightswarm command
AfterCall ==
    /\ req.dev = "lightswarm" /\ IntChannels(req.command.channels)
    /\ pc[Main] = "exit" /\ pc'[Main] # "exit"

\* call i is followed by call i + 1, and call N by the return of the command
IsNextCall ==
    IF call[Main].nth < Len(req.command.channels)
    THEN pc'[Main] = "acquire" /\ call'[Main].nth = call[Main].nth + 1
    ELSE pc'[Main] = "idle" /\ status'[Main] = "Success"

\* every call is followed by the call for the next channel, and the call
\* for the last channel by the return of the command
C21_AlwaysNextCall == AfterCall => IsNextCall

\* a call that returns is followed by the call for the next channel, or
\* after the last by the return of the command; a call that raises ends
\* the command with an error, no further call being made
C21_NextCall ==
    AfterCall =>
        IF call[Main].outcome = "returned"
        THEN IsNextCall
        ELSE pc'[Main] = "idle" /\ status'[Main] = "Error"

\* C21 (as stated): a valid Lightswarm command for N channels makes exactly
\* N send_payload calls, one per channel in order, the i-th with the frame
\* of the sequence of the i-th channel and nothing else.
C21_ExactlyN == []C21_EachCall /\ [][C21_FirstCall /\ C21_AlwaysNextCall]_vars

\* C21 (amended): a valid Lightswarm command for N channels makes its
\* send_payload calls one per channel in order, starting with the first, the
\* i-th with the frame of the sequence of the i-th channel and nothing else;
\* it makes exactly N of them when every call returns, and a call that
\* raises is the last one, the command ending with that error.
C21_OneSendPerChannel == []C21_EachCall /\ [][C21_FirstCall /\ C21_NextCall]_vars

C21_Witness ==
    /\ pc[Main] = "exit" /\ req.dev = "lightswarm"
    /\ req.command.channels = <<IntV(1), IntV(192)>> /\ req.command.action = "level"
    /\ req.command.level = IntV(10)
    /\ call[Main].nth = 2 /\ call[Main].writeRes = "ok"
    /\ call[Main].written = <<192, 0, 219, 220, 34, 10, 232, 192>>
    /\ call[Main].prior >= 1

KnownColour(r) == r.dev = "sk6812" /\ r.command.colour \in DOMAIN sk_codes

\* the one send_payload call of a strip command carries a record for every
\* channel, in order, and writes them at most once, as one array and a newline
C22_TheCall ==
    (KnownColour(req) /\ InCall) =>
        LET c == req.command
            n == Len(c.channels)
            p == payload[Main]
            w == call[Main].written
        IN  /\ call[Main].nth = 1
            /\ Len(p) = n
            /\ \A i \in 1..n :
                    p[i] = [index |-> c.channels[i], set |-> sk_codes[c.colour],
                            brightness |-> c.brightness, effect |-> c.effect]
            /\ call[Main].writes <= 1
            /\ call[Main].writes = 1 =>
                    /\ Len(w) = n + 1 /\ w[n + 1] = <<"\n">>
                    /\ \A i \in 1..n :
                            w[i] = <<"index", c.channels[i], "set", sk_codes[c.colour],
                                     "brightness", c.brightness, "effect", c.effect>>
            /\ (pc[Main] = "exit" /\ call[Main].openRes \in {"-", "ok"}) =>
                    call[Main].writes = 1

\* a strip command calls send_payload, and after the call it returns
C22_OneCall ==
    /\ (pc[Main] = "cmd" /\ pc'[Main] # "cmd" /\ KnownColour(req')) =>
            pc'[Main] = "acquire"
    /\ (KnownColour(req) /\ pc[Main] = "exit" /\ pc'[Main] # "exit") =>
            pc'[Main] = "idle"

\* C22: a strip command with a known colour makes exactly one send_payload
\* call, with one record per channel in order (index, catalog tuple,
\* brightness and effect unchanged), written in a single write as one array
\* ended by a newline.
C22_OneEnvelopeList == []C22_TheCall /\ [][C22_OneCall]_vars

C22_Witness ==
    /\ pc[Main] = "exit" /\ req.dev = "sk6812"
    /\ req.command.channels = <<IntV(1), IntV(192)>> /\ req.command.colour = "red"
    /\ call[Main].writeRes = "ok"
    /\ call[Main].written =
            <<<<"index", IntV(1), "set", <<255, 0, 0, 0>>,
                "brightness", 1, "effect", "none">>,
              <<"index", IntV(192), "set", <<255, 0, 0, 0>>,
                "brightness", 1, "effect", "none">>,
              <<"\n">>>>

\* the step is a step of the handler of t that calls close() on the object
\* the global refers to, or resets the global that refers to it, the object
\* being open; whether close() succeeds or raises makes no difference
ClosesOrDrops(t) ==
    /\ Watched(t) /\ pc[t] \in {"hclose", "hreset"} /\ pc'[t] # pc[t]
    /\ IsOpen(handle[dev[t]])

\* C23: the handler of a serial failure closes or drops only the handle its
\* own call opened or wrote to, never one that another call opened after
\* the failure.
C23_OwnHandleOnly ==
    [][\A t \in Thread : ClosesOrDrops(t) => call[t].own]_vars

\* the watched worker is past the connection check, and past the open if it
\* made one, in a send of a Lightswarm command one of whose earlier sends
\* failed with a serial error
EntersAfterFailure ==
    /\ dev[Main] = "lightswarm" /\ reqFailed[Main]
    /\ pc[Main] \in {"isopen", "open"} /\ pc'[Main] \notin {"isopen", "open"}

\* no operation on the port failed in the call c otherwise than with a
\* serial error
SerialOnly(c) == c.openRes # "other" /\ c.writeRes # "other" /\ c.closeRes # "other"

\* a call of a command with a serial failure, in which the port failed with
\* serial errors only, is followed by the call with the frame of the next
\* channel, and the call for the last channel by the normal return
C24_Continues ==
    (dev[Main] = "lightswarm" /\ reqFailed[Main] /\ SerialOnly(call[Main])
        /\ pc[Main] = "exit" /\ pc'[Main] # "exit") =>
        LET c == cmd[Main]
            i == call[Main].nth
        IN  IF i < Len(c.channels)
            THEN /\ pc'[Main] = "acquire"
                 /\ call'[Main].nth = i + 1
                 /\ payload'[Main] = ls_channel_payload(c, c.channels[i + 1]).val
            ELSE pc'[Main] = "idle" /\ status'[Main] = "Success"

\* every later send opens the port
C24_OpensAlways == EntersAfterFailure => call'[Main].opens = 1

\* C24: after a serial failure of one channel's send the frames of all
\* remaining channels are still built and sent in order, each send
\* attempting a fresh open, and the command returns normally.
C24_FreshOpenEverySend == [][C24_Continues /\ C24_OpensAlways]_vars

\* C24, the part on the remaining channels alone
C24_SendsRemaining == [][C24_Continues]_vars

====
